---- MODULE Spec2Model ----
(***************************************************************************)
(* Model of the QR reader (src/app/js/vendor/qrscan.js, and its class      *)
(* variant src/src/qrscan.js): the capture -> request -> response ->       *)
(* reschedule loop between a media element and a decoder web worker.       *)
(*                                                                         *)
(* The reader runs on one event loop.  Timers set with setTimeout(f, 0)    *)
(* fire in the order they were set; worker messages are delivered in the   *)
(* order each worker posted them, interleaved freely with timers and with  *)
(* the caller's init / scan / terminate calls.                             *)
(***************************************************************************)
EXTENDS Integers, Sequences, FiniteSets, TLC

(* ---------------------------- bounds ----------------------------------- *)
MaxCalls == 3      \* calls of init and scan together

(* ---------------------------- values ----------------------------------- *)
NULL == "null"
NoWorker == 0
Callbacks == {"cb1", "cb2"}
MediaElements == {NULL, "elem"}
CaptureOutcomes == {"ok", "ns", "other", "nodata"}

Match(t) == <<"geom", "geom2", t>>

(* The match lists the decoder answers with: none, one match, and two      *)
(* matches with different texts.                                           *)
Payloads == {<<>>, <<Match("X")>>, <<Match("Y"), Match("X")>>}

(* A message event as the reader's onmessage handler sees it.  evt is the  *)
(* typeof of the event itself, hasData whether event.data can be           *)
(* destructured, name / payload the fields of event.data.                  *)
Msg(hasData, name, hasPayload, payload) ==
    [evt |-> "object", hasData |-> hasData, name |-> name,
     hasPayload |-> hasPayload, payload |-> payload]

DecodedMsg(matches) == Msg(TRUE, "decoded", TRUE, matches)
DecodedMsgs == {DecodedMsg(p) : p \in Payloads}
InitMsg == Msg(TRUE, "init", TRUE, <<>>)
UnknownMsg == Msg(TRUE, "other", TRUE, <<>>)
MalformedMsgs ==
    { Msg(FALSE, "undefined", FALSE, <<>>),  \* event.data is undefined
      Msg(TRUE, "decoded", FALSE, <<>>) }    \* 'decoded' without a match list
OtherMsgs == {InitMsg, UnknownMsg} \cup MalformedMsgs

TickTimer == [task |-> "tick", sel |-> FALSE]
PhotoTimer(sel) == [task |-> "photo", sel |-> sel]

NewWorker == [alive |-> TRUE, reqs |-> 0]
NoCalls == [n |-> 0, cb |-> NULL, text |-> NULL]

VARIABLES
    active,        \* QRReader.active
    webcam,        \* QRReader.webcam: NULL or the bound media element
    canvas,        \* QRReader.canvas / ctx: NULL, or the size of the canvas:
                   \* "default" (as created) or "window"
    listeners,     \* the 'play' listeners init added to the media element:
                   \* the streaming flag of each
    decoder,       \* QRReader.decoder: NoWorker (null) or the index of a worker
    onScan,        \* QRReader.onScan: NULL or a callback
    supported,     \* window.isMediaStreamAPISupported
    timers,        \* pending setTimeout tasks, in firing order
    workers,       \* every worker created: alive or terminated, and the number
                   \* of requests posted to it that it has not answered
    calls,         \* invocations of the result callback since the last scan
                   \* call: how many, and the callback and text of the latest
    thrown,        \* error escaping the latest call or handler
    hist           \* what happened so far

vars == <<active, webcam, canvas, listeners, decoder, onScan, supported, timers, workers,
          calls, thrown, hist>>

InitHist ==
    [inits |-> 0, scans |-> 0,
     nsRun |-> 0,             \* transient capture failures in a row, up to now (2: two or more)
     emptySeen |-> FALSE,     \* an empty 'decoded' result was handled since the last scan
     otherSeen |-> FALSE,     \* an 'init' or unrecognized message was handled since then
     firstText |-> NULL,      \* text of the first match of the first non-empty result since then
     overlap |-> FALSE,       \* scan was called while the reader was active
     replaced |-> NULL,       \* the other callback that the latest scan, called while the
                              \* reader was active, took the place of (NULL: none)
     phase |-> "fresh"]       \* the caller's calls: "fresh" (none, or only init), "scanned"
                              \* (scan and no terminate since), "terminated" (terminate was
                              \* the latest), "terminated2" (and the one before it too),
                              \* "reinit" (init after terminate and no scan since)

Init ==
    /\ active = FALSE
    /\ webcam = NULL
    /\ canvas = NULL
    /\ listeners = <<>>
    /\ decoder = NoWorker
    /\ onScan = NULL
    /\ supported \in BOOLEAN
    /\ timers = <<>>
    /\ workers = <<>>
    /\ calls = NoCalls
    /\ thrown = "none"
    /\ hist = InitHist

(* Requests posted to live workers and not answered yet.                   *)
RECURSIVE SumReqs(_)
SumReqs(ws) == IF ws = <<>> THEN 0 ELSE Head(ws).reqs + SumReqs(Tail(ws))
Outstanding == SumReqs(workers)

(* ------------------------- the reader's functions ---------------------- *)

(* setPhotoSourceToScan: keeps a bound source, else binds the argument,    *)
(* else the page's video element (streaming supported and no explicit      *)
(* selection asked for), else the page's img element.                      *)
setPhotoSourceToScan(cam, mediaElement, forSelectedPhotos) ==
    IF cam # NULL THEN cam
    ELSE IF mediaElement # NULL THEN mediaElement
    ELSE IF ~forSelectedPhotos /\ supported THEN "video"
    ELSE "img"

(* validateMessage: [false] for a falsy message, [true] for an object,     *)
(* [false] for anything else.                                              *)
validateMessage(msg) ==
    IF msg.evt = "undefined" THEN FALSE
    ELSE IF msg.evt = "object" THEN TRUE
    ELSE FALSE

(* What requestNewDecoderTask runs into.  cap is what drawImage and        *)
(* getImageData do with a bound source: "ok", "ns" (they throw             *)
(* NS_ERROR_NOT_AVAILABLE), "other" (they throw something else), "nodata"  *)
(* (the image data has no pixel array).                                    *)
captureOutcome(act, cam, dec, cap) ==
    IF ~act THEN "inactive"
    ELSE IF cam = NULL THEN "nosource"          \* drawImage(null): TypeError, caught
    ELSE IF cap # "ok" THEN cap
    ELSE IF dec = NoWorker THEN "noworker"      \* null.postMessage: TypeError, caught
    ELSE "ok"

(* requestNewDecoderTask whose catch block only logs.                      *)
requestNewDecoderTask_NoRetry(act, cam, dec, ws, tms, cap) ==
    LET outcome == captureOutcome(act, cam, dec, cap)
    IN  IF outcome = "ok"
        THEN [workers |-> [ws EXCEPT ![dec].reqs = @ + 1], timers |-> tms,
              outcome |-> outcome]
        ELSE [workers |-> ws, timers |-> tms, outcome |-> outcome]

(* requestNewDecoderTask, from the timer queue tms: the workers and timers *)
(* it leaves behind.                                                       *)
requestNewDecoderTask(act, cam, dec, ws, tms, cap) ==
    LET outcome == captureOutcome(act, cam, dec, cap)
    IN  CASE outcome = "ok" ->
               [workers |-> [ws EXCEPT ![dec].reqs = @ + 1], timers |-> tms,
                outcome |-> outcome]
          [] outcome = "ns" ->
               [workers |-> ws, timers |-> Append(tms, TickTimer), outcome |-> outcome]
          [] OTHER ->
               [workers |-> ws, timers |-> tms, outcome |-> outcome]

(* processDecodedQR reading the text of the last match, not the first.     *)
processDecodedQR_LastMatch(result, act, cb, tms, cs) ==
    IF Len(result) > 0
    THEN [active |-> FALSE,
          calls  |-> IF cb # NULL
                     THEN [n |-> cs.n + 1, cb |-> cb, text |-> result[Len(result)][3]]
                     ELSE cs,
          timers |-> Append(tms, TickTimer),
          thrown |-> "none"]
    ELSE [active |-> act, calls |-> cs, timers |-> Append(tms, TickTimer),
          thrown |-> "none"]

(* processDecodedQR: on a non-empty result clears active and calls the     *)
(* stored callback with result[0][2]; always sets a timer for the next     *)
(* requestNewDecoderTask.                                                  *)
processDecodedQR(result, act, cb, tms, cs) ==
    IF Len(result) > 0
    THEN [active |-> FALSE,
          calls  |-> IF cb # NULL
                     THEN [n |-> cs.n + 1, cb |-> cb, text |-> result[1][3]]
                     ELSE cs,
          timers |-> Append(tms, TickTimer),
          thrown |-> "none"]
    ELSE [active |-> act, calls |-> cs, timers |-> Append(tms, TickTimer),
          thrown |-> "none"]

(* handleWorkerInit taking the 'init' message for the end of a cycle.      *)
handleWorkerInit_Schedules(act, cb, tms, cs) ==
    [active |-> act, calls |-> cs, timers |-> Append(tms, TickTimer), thrown |-> "none"]

(* handleWorkerInit: logs.                                                 *)
handleWorkerInit(act, cb, tms, cs) ==
    [active |-> act, calls |-> cs, timers |-> tms, thrown |-> "none"]

(* handleWorkerError handing the error to the result callback.            *)
handleWorkerError_Reports(act, cb, tms, cs) ==
    [active |-> act,
     calls |-> IF cb # NULL THEN [n |-> cs.n + 1, cb |-> cb, text |-> "error"] ELSE cs,
     timers |-> tms, thrown |-> "none"]

(* handleWorkerError: logs.                                                *)
handleWorkerError(act, cb, tms, cs) ==
    [active |-> act, calls |-> cs, timers |-> tms, thrown |-> "none"]

(* handleWorkerMessage: validates the event, destructures event.data and   *)
(* dispatches on its name.                                                 *)
handleWorkerMessage(message, act, cb, tms, cs) ==
    LET same == [active |-> act, calls |-> cs, timers |-> tms, thrown |-> "none"]
    IN  IF ~validateMessage(message) THEN same
        ELSE IF ~message.hasData THEN [same EXCEPT !.thrown = "TypeError"]
        ELSE CASE message.name = "decoded" ->
                    IF message.hasPayload
                    THEN processDecodedQR(message.payload, act, cb, tms, cs)
                    ELSE [same EXCEPT !.thrown = "TypeError"]  \* undefined.length
               [] message.name = "init" -> handleWorkerInit(act, cb, tms, cs)
               [] OTHER -> same

(* terminate without the guard on the decoder reference.                   *)
terminateDecoder_NoGuard(dec, ws) ==
    IF dec # NoWorker
    THEN [workers |-> [ws EXCEPT ![dec] = [alive |-> FALSE, reqs |-> 0]],
          decoder |-> NoWorker, thrown |-> "none"]
    ELSE [workers |-> ws, decoder |-> dec, thrown |-> "TypeError"]

(* terminate's two statements: terminate the decoder if there is one, then *)
(* drop the reference.  A terminated worker delivers nothing more: its     *)
(* requests and its undelivered messages are discarded.                    *)
terminateDecoder(dec, ws) ==
    IF dec # NoWorker
    THEN [workers |-> [ws EXCEPT ![dec] = [alive |-> FALSE, reqs |-> 0]],
          decoder |-> NoWorker, thrown |-> "none"]
    ELSE [workers |-> ws, decoder |-> NoWorker, thrown |-> "none"]

(* setCanvas: a new canvas, of the default size.                           *)
setCanvas == "default"

(* setCanvasProperties: the canvas gets the size of the window.            *)
setCanvasProperties == "window"

(* createWorker: a new worker with the reader's handlers.                  *)
createWorker(ws) == Append(ws, NewWorker)

(* ------------------------- the caller's calls -------------------------- *)

(* QRReader.init(mediaElement)                                             *)
QRReader_init(mediaElement) ==
    /\ hist.inits + hist.scans < MaxCalls
    /\ webcam' = setPhotoSourceToScan(webcam, mediaElement, FALSE)
    /\ canvas' = IF supported THEN setCanvas ELSE setCanvasProperties
    /\ listeners' = IF supported THEN Append(listeners, FALSE) ELSE listeners
    /\ workers' = createWorker(workers)
    /\ decoder' = Len(workers) + 1
    /\ thrown' = "none"
    /\ hist' = [hist EXCEPT !.inits = @ + 1,
                            !.phase = IF @ \in {"terminated", "terminated2", "reinit"}
                                      THEN "reinit" ELSE @]
    /\ UNCHANGED <<active, onScan, supported, timers, calls>>

(* The media element starts playing: every listener that has not run yet   *)
(* sizes the canvas and sets its flag.                                     *)
PlayEvent ==
    /\ listeners # <<>>
    /\ canvas' = IF \E i \in DOMAIN listeners : ~listeners[i]
                 THEN setCanvasProperties ELSE canvas
    /\ listeners' = [i \in DOMAIN listeners |-> TRUE]
    /\ thrown' = "none"
    /\ UNCHANGED <<active, webcam, decoder, onScan, supported, timers, workers,
                   calls, hist>>

(* scan keeping the callback of a scan that is still active.               *)
QRReader_scan_KeepsCallback(callback, forSelectedPhotos, cap) ==
    LET r == requestNewDecoderTask(TRUE, webcam, decoder, workers,
                                   Append(timers, PhotoTimer(forSelectedPhotos)), cap)
    IN  /\ hist.inits + hist.scans < MaxCalls
        /\ active' = TRUE
        /\ canvas' = setCanvas
        /\ onScan' = IF active THEN onScan ELSE callback
        /\ timers' = r.timers
        /\ workers' = r.workers
        /\ thrown' = "none"
        /\ calls' = [calls EXCEPT !.n = 0]
        /\ hist' = [hist EXCEPT !.scans = @ + 1, !.emptySeen = FALSE,
                                !.otherSeen = FALSE,
                                !.nsRun = IF r.outcome = "ns" THEN 1 ELSE 0,
                                !.firstText = NULL, !.phase = "scanned",
                                !.overlap = @ \/ active,
                                !.replaced = IF active /\ onScan # callback
                                             THEN onScan ELSE NULL]
        /\ UNCHANGED <<webcam, listeners, decoder, supported>>

(* QRReader.scan(callback, forSelectedPhotos)                              *)
(* forSelectedPhotos is read only by setPhotoSourceToScan, and only while  *)
(* no source is bound: SelectChoices leaves out the values that cannot     *)
(* matter.                                                                 *)
SelectChoices == IF webcam = NULL THEN BOOLEAN ELSE {FALSE}


QRReader_scan(callback, forSelectedPhotos, cap) ==
    LET r == requestNewDecoderTask(TRUE, webcam, decoder, workers,
                                   Append(timers, PhotoTimer(forSelectedPhotos)), cap)
    IN  /\ hist.inits + hist.scans < MaxCalls
        /\ active' = TRUE
        /\ canvas' = setCanvas
        /\ onScan' = callback
        /\ timers' = r.timers
        /\ workers' = r.workers
        /\ thrown' = "none"
        /\ calls' = [calls EXCEPT !.n = 0]
        /\ hist' = [hist EXCEPT !.scans = @ + 1, !.emptySeen = FALSE,
                                !.otherSeen = FALSE,
                                !.nsRun = IF r.outcome = "ns" THEN 1 ELSE 0,
                                !.firstText = NULL, !.phase = "scanned",
                                !.overlap = @ \/ active,
                                !.replaced = IF active /\ onScan # callback
                                             THEN onScan ELSE NULL]
        /\ UNCHANGED <<webcam, listeners, decoder, supported>>

(* QRReader.terminate()                                                    *)
QRReader_terminate ==
    LET r == terminateDecoder(decoder, workers)
    IN  /\ workers' = r.workers
        /\ decoder' = r.decoder
        /\ thrown' = r.thrown
        /\ hist' = [hist EXCEPT !.phase = IF @ \in {"terminated", "terminated2"}
                                          THEN "terminated2" ELSE "terminated"]
        /\ UNCHANGED <<active, webcam, canvas, listeners, onScan, supported, timers, calls>>

(* ------------------------- event-loop tasks ---------------------------- *)

(* The timer set by scan: setPhotoSourceToScan(null, forSelectedPhotos)    *)
PhotoSourceTimer ==
    /\ timers # <<>>
    /\ Head(timers).task = "photo"
    /\ webcam' = setPhotoSourceToScan(webcam, NULL, Head(timers).sel)
    /\ timers' = Tail(timers)
    /\ thrown' = "none"
    /\ UNCHANGED <<active, canvas, listeners, decoder, onScan, supported, workers, calls, hist>>

(* The timer set by processDecodedQR and by the catch block:               *)
(* requestNewDecoderTask()                                                 *)
CycleTick(cap) ==
    /\ timers # <<>>
    /\ Head(timers).task = "tick"
    /\ LET r == requestNewDecoderTask(active, webcam, decoder, workers, Tail(timers), cap)
       IN  /\ timers' = r.timers
           /\ workers' = r.workers
           /\ thrown' = "none"
           /\ hist' = [hist EXCEPT !.nsRun = IF r.outcome # "ns" THEN 0
                                             ELSE IF @ < 2 THEN @ + 1 ELSE @]
    /\ UNCHANGED <<active, webcam, canvas, listeners, decoder, onScan, supported, calls>>

(* The decoder worker (./decoder.worker, not among the sources): it        *)
(* answers each request with one 'decoded' message, oldest first, and may  *)
(* post other messages at any time.  The worker's state after it posted    *)
(* message, and whether it can post it.                                    *)
DecoderPosts(ws, w, message) ==
    IF message \in DecodedMsgs
    THEN [can |-> ws[w].reqs > 0, workers |-> [ws EXCEPT ![w].reqs = @ - 1]]
    ELSE [can |-> TRUE, workers |-> ws]

(* worker.onmessage: a message posted by a live worker arrives.            *)
WorkerMessage(w, message) ==
    /\ workers[w].alive
    /\ DecoderPosts(workers, w, message).can
    /\ workers' = DecoderPosts(workers, w, message).workers
    /\ LET r == handleWorkerMessage(message, active, onScan, timers, calls)
           decoded == message \in DecodedMsgs
       IN  /\ active' = r.active
           /\ calls' = r.calls
           /\ timers' = r.timers
           /\ thrown' = r.thrown
           /\ hist' = [hist EXCEPT
                         !.emptySeen = @ \/ (decoded /\ message.payload = <<>>),
                         !.otherSeen = @ \/ message \in {InitMsg, UnknownMsg},
                         !.firstText = IF decoded /\ message.payload # <<>> /\ @ = NULL
                                       THEN message.payload[1][3] ELSE @]
    /\ UNCHANGED <<webcam, canvas, listeners, decoder, onScan, supported>>

(* worker.onerror                                                          *)
WorkerError(w) ==
    /\ workers[w].alive
    /\ LET r == handleWorkerError(active, onScan, timers, calls)
       IN  /\ active' = r.active
           /\ calls' = r.calls
           /\ timers' = r.timers
           /\ thrown' = r.thrown
    /\ UNCHANGED <<webcam, canvas, listeners, decoder, onScan, supported, workers, hist>>

Next ==
    \/ \E m \in MediaElements : QRReader_init(m)
    \/ \E cb \in Callbacks, sel \in SelectChoices, cap \in CaptureOutcomes :
          QRReader_scan(cb, sel, cap)
    \/ QRReader_terminate
    \/ PhotoSourceTimer
    \/ PlayEvent
    \/ \E cap \in CaptureOutcomes : CycleTick(cap)
    \/ \E w \in 1..Len(workers), m \in OtherMsgs \cup DecodedMsgs : WorkerMessage(w, m)
    \/ \E w \in 1..Len(workers) : WorkerError(w)

Spec == Init /\ [][Next]_vars

(* ------------------------- properties ---------------------------------- *)

(* A step posts a decode request to some worker.                           *)
RequestPosted == \E w \in DOMAIN workers : workers'[w].reqs > workers[w].reqs

(* A step invokes the result callback.                                     *)
CallbackInvoked == calls'.n > calls.n

(* terminate was the caller's latest call.                                 *)
Terminated == hist.phase \in {"terminated", "terminated2"}

TickPending == \E i \in DOMAIN timers : timers[i] = TickTimer

(* C1: with scan called once, the result callback has been invoked exactly *)
(* once as soon as a 'decoded' message with a non-empty match list has     *)
(* been handled, not at all before, and its argument is the third field    *)
(* of the first match of the first such message.                           *)
C1_OneScanOneResult ==
    hist.scans = 1 =>
        /\ hist.firstText = NULL => calls.n = 0
        /\ hist.firstText # NULL =>
              calls.n = 1 /\ calls.text = hist.firstText /\ calls.cb = onScan

(* One scan, an empty result and then a result of two matches: the         *)
(* callback got the text of the first match, once.                         *)
C1_Witness ==
    /\ hist.scans = 1 /\ hist.inits = 1 /\ hist.emptySeen
    /\ calls.n = 1 /\ calls.text = "Y" /\ ~active

(* C2: after the result callback was invoked, no later decoder message     *)
(* invokes it again unless scan is called again: since the latest scan     *)
(* call it has been invoked at most once (scan being called only on an     *)
(* idle reader).                                                           *)
C2_AtMostOnceSinceScan == ~hist.overlap => calls.n <= 1

(* C3: once terminate was called (and scan not called again), handling a   *)
(* decoder message or firing a timer invokes no callback and posts no      *)
(* request.                                                                *)
C3_QuietAfterTerminate ==
    [][(Terminated \/ hist.phase = "reinit") /\ hist'.phase = hist.phase
          => ~CallbackInvoked /\ ~RequestPosted]_vars

(* C4: at most one decode request is posted and not answered (scan being   *)
(* called only on an idle reader).                                         *)
C4_AtMostOneOutstanding == ~hist.overlap => Outstanding <= 1

(* C5: a capture failing with NS_ERROR_NOT_AVAILABLE in an active scan     *)
(* posts no request, invokes no callback, leaves the reader active and     *)
(* sets a timer for a fresh attempt in place of the one that failed; and   *)
(* a capture that then succeeds posts a request.                           *)
C5_TransientRetry ==
    [][/\ active /\ webcam # NULL /\ CycleTick("ns")
          => /\ ~RequestPosted /\ ~CallbackInvoked /\ active'
             /\ timers' = Append(Tail(timers), TickTimer)
       /\ \A cb \in Callbacks, sel \in BOOLEAN :
            webcam # NULL /\ QRReader_scan(cb, sel, "ns")
               => /\ ~RequestPosted /\ ~CallbackInvoked /\ active'
                  /\ timers' = Append(Append(timers, PhotoTimer(sel)), TickTimer)
       /\ active /\ webcam # NULL /\ decoder # NoWorker /\ CycleTick("ok")
          => RequestPosted /\ workers'[decoder].reqs = workers[decoder].reqs + 1
      ]_vars

(* Two transient failures in a row, and the scan is still on with its      *)
(* next attempt pending.                                                   *)
C5_Witness ==
    /\ hist.nsRun = 2 /\ active /\ TickPending /\ Outstanding = 0 /\ calls.n = 0

(* C6: a second terminate right after a first raises no error and leaves   *)
(* the reader as the first left it: not active, no decoder.                *)
C6_TerminateTwice ==
    [][Terminated /\ QRReader_terminate
          => /\ thrown' = "none"
             /\ UNCHANGED <<active, webcam, canvas, listeners, decoder, onScan, timers, workers, calls>>
             /\ active' = FALSE /\ decoder' = NoWorker]_vars

(* C7: terminate before any init raises no error and changes nothing.      *)
C7_TerminateBeforeInit ==
    [][hist.inits = 0 /\ QRReader_terminate
          => /\ thrown' = "none"
             /\ UNCHANGED <<active, webcam, canvas, listeners, decoder, onScan, timers, workers, calls>>
             /\ decoder' = NoWorker /\ workers' = <<>>]_vars

(* terminate was called on a reader never initialized nor scanned.         *)
C7_Witness ==
    /\ hist.inits = 0 /\ hist.scans = 0 /\ Terminated
    /\ thrown = "none" /\ decoder = NoWorker /\ workers = <<>>
    /\ ~active /\ webcam = NULL /\ canvas = NULL /\ onScan = NULL

(* C8: the result callback is invoked only by handling a 'decoded' message *)
(* with a non-empty match list, once, with the text of its first match.    *)
C8_OnlyDecodedInvokes ==
    [][CallbackInvoked
          => \E w \in DOMAIN workers, p \in Payloads \ {<<>>} :
                /\ WorkerMessage(w, DecodedMsg(p))
                /\ calls' = [n |-> calls.n + 1, cb |-> onScan, text |-> p[1][3]]]_vars

(* The callback of the second scan was invoked with a decoded text.        *)
C8_Witness ==
    /\ hist.scans = 2 /\ calls.n = 1 /\ calls.cb = "cb2" /\ calls.text = "X"
    /\ hist.firstText = "X"

(* C9: on a reader that was initialized and then terminated, a scan whose  *)
(* capture succeeds raises an error to its caller and posts no request.    *)
C9_ScanAfterTerminateFails ==
    [][(/\ hist.inits > 0 /\ Terminated /\ decoder = NoWorker /\ webcam # NULL
        /\ \E cb \in Callbacks, sel \in BOOLEAN : QRReader_scan(cb, sel, "ok"))
          => thrown' # "none" /\ ~RequestPosted]_vars

(* C10: between an init that follows terminate and the next scan, no       *)
(* decode request is posted.                                               *)
C10_NoRequestBeforeScan ==
    [][hist.phase = "reinit" /\ hist'.phase = "reinit" => ~RequestPosted]_vars

(* C11: in an active scan with a bound source, a capture that fails with   *)
(* an error other than NS_ERROR_NOT_AVAILABLE leaves the reader active and *)
(* sets a timer for a fresh attempt in place of the one that failed.       *)
C11_OtherFailureRetried ==
    [][(active /\ webcam # NULL /\ CycleTick("other"))
          => active' /\ timers' = Append(Tail(timers), TickTimer)]_vars

(* C12: handling a 'decoded' message with a non-empty match list in an     *)
(* active scan clears active, invokes the callback once and sets no timer: *)
(* the timer queue is as it was.                                           *)
C12_NoTickAfterResult ==
    [][\A w \in DOMAIN workers, p \in Payloads \ {<<>>} :
          (active /\ onScan # NULL /\ WorkerMessage(w, DecodedMsg(p)))
             => /\ ~active'
                /\ calls'.n = calls.n + 1
                /\ timers' = timers]_vars

(* C13: handling a message named 'init', or one of an unrecognized name,   *)
(* changes neither active, nor the stored callback, nor the requests not   *)
(* answered, nor the pending timers, posts no request, invokes no callback *)
(* and raises nothing: a request not answered stays so.                    *)
C13_InitAndUnknownNoSchedule ==
    [][\A w \in DOMAIN workers, m \in {InitMsg, UnknownMsg} :
          WorkerMessage(w, m)
             => /\ UNCHANGED <<active, onScan, workers, timers, calls, decoder>>
                /\ ~RequestPosted /\ ~CallbackInvoked
                /\ thrown' = "none"
                /\ Outstanding' = Outstanding]_vars

(* An 'init' or unrecognized message was handled in an active scan and the *)
(* request of the scan is still there, not answered.                       *)
C13_Witness ==
    /\ hist.otherSeen /\ active /\ onScan # NULL /\ Outstanding = 1
    /\ calls.n = 0 /\ ~TickPending

(* C14: handling a message that has no data, or a 'decoded' message that   *)
(* has no match list, raises no error, changes nothing of the reader,      *)
(* posts no request and invokes no callback.                               *)
C14_MalformedDiscarded ==
    [][\A w \in DOMAIN workers, m \in MalformedMsgs :
          WorkerMessage(w, m)
             => /\ thrown' = "none"
                /\ UNCHANGED <<active, onScan, timers, workers, calls, decoder, webcam>>
                /\ ~RequestPosted /\ ~CallbackInvoked]_vars

(* C15: terminate called on an active reader leaves it not active, with no *)
(* stored callback, its worker terminated and no decoder reference.        *)
C15_TerminateStopsAndCloses ==
    [][(active /\ decoder # NoWorker /\ QRReader_terminate)
          => /\ ~active'
             /\ onScan' = NULL
             /\ decoder' = NoWorker
             /\ ~workers'[decoder].alive]_vars

(* C16: when scan returns, a reader that had no source has the one         *)
(* setPhotoSourceToScan selects (so that the capture scan makes reads a    *)
(* bound source), and a reader that had a source still has it.             *)
C16_SourceBoundBeforeFirstCapture ==
    [][\A cb \in Callbacks, sel \in BOOLEAN, cap \in CaptureOutcomes :
          QRReader_scan(cb, sel, cap)
             => /\ webcam = NULL => webcam' = setPhotoSourceToScan(NULL, NULL, sel)
                /\ webcam # NULL => webcam' = webcam]_vars

(* Something is left that can carry the scan loop on: a timer for          *)
(* requestNewDecoderTask, or a request the decoder has yet to answer.      *)
LoopAlive == TickPending \/ Outstanding > 0

(* Once an active reader has neither, no timer and no worker message posts *)
(* a request or invokes the callback any more: only another call of scan   *)
(* restarts the loop.                                                      *)
StalledForGood ==
    [][(active /\ ~LoopAlive /\ hist'.scans = hist.scans)
          => ~RequestPosted /\ ~CallbackInvoked /\ active' /\ ~LoopAlive']_vars

(* C17: the scan loop never stalls while the reader is active.  scan on an *)
(* initialized reader leaves a request or a timer for the next attempt     *)
(* behind, and so does every later step but terminate, whatever the        *)
(* capture runs into, as long as the reader is active.  (With timers that  *)
(* fire and a decoder that answers, this is what makes a request or a      *)
(* callback follow; where it fails, StalledForGood says none ever does.)   *)
C17_LoopNeverStalls ==
    [][/\ (webcam # NULL /\ decoder # NoWorker
             /\ \E cb \in Callbacks, sel \in BOOLEAN, cap \in CaptureOutcomes :
                   QRReader_scan(cb, sel, cap))
          => LoopAlive'
       /\ (active /\ webcam # NULL /\ decoder # NoWorker /\ LoopAlive
             /\ ~QRReader_terminate)
          => (active' => LoopAlive')]_vars

(* C18: scan called again on a reader that a result left idle starts one   *)
(* cycle only: while the request of that scan is not answered and no       *)
(* 'decoded' message has been handled since, no other request is posted.   *)
C18_OneCyclePerRescan ==
    [][(/\ ~hist.overlap /\ hist.scans >= 2 /\ active
        /\ hist.firstText = NULL /\ ~hist.emptySeen
        /\ Outstanding >= 1
        /\ hist'.scans = hist.scans)
          => ~RequestPosted]_vars

(* C19: after scan(cb2) was called while a scan(cb1) was active, every     *)
(* invocation of the result callback is one of cb2, the stored callback,   *)
(* and none is one of cb1, whichever request the 'decoded' message         *)
(* answers.                                                                *)
C19_ReplacedCallbackNeverInvoked ==
    hist.replaced # NULL
        => /\ onScan # hist.replaced
           /\ calls.n > 0 => calls.cb = onScan /\ calls.cb # hist.replaced

(* scan(cb1) posted a request, scan(cb2) was called before its answer and  *)
(* posted none (its capture failed), and the answer to the first request   *)
(* went to cb2.                                                            *)
C19_Witness ==
    /\ hist.replaced = "cb1" /\ onScan = "cb2" /\ hist.scans = 2
    /\ hist.nsRun = 1 /\ Outstanding = 0
    /\ calls = [n |-> 1, cb |-> "cb2", text |-> "X"]

(* The workers that can still deliver messages to the reader's handlers.   *)
LiveWorkers == {w \in DOMAIN workers : workers[w].alive}

(* C20: whatever init, scan and terminate calls were made, at most one     *)
(* worker is alive with the reader's message handler attached.             *)
C20_AtMostOneLiveWorker == Cardinality(LiveWorkers) <= 1

====
